---- MODULE Spec2Model ----
(***************************************************************************)
(* A model of the gaindalf workout-tracking backend: the relational store  *)
(* (backend/models.py), the REST handlers that write it (backend/routers)  *)
(* and the lift-suggestion algorithm (backend/services/algorithm.py).      *)
(*                                                                         *)
(* Tables are sets of rows (records with the columns the handlers read).   *)
(* Primary keys are SQLite INTEGER PRIMARY KEY rowids: a new row gets the  *)
(* largest id in the table plus one, so the id of a deleted last row is    *)
(* handed out again.  SQLite does not enforce the declared foreign keys    *)
(* (database.py sets no PRAGMA foreign_keys), so rows may dangle.          *)
(* Columns no decision reads (Workout.subtitle, WorkoutLift.display_order) *)
(* are left out.  A nullable column holds None (<<>>) or Some(v) (<<v>>).  *)
(*                                                                         *)
(* The order in which Python iterates a set, and in which SQLite returns   *)
(* the rows of a SELECT without ORDER BY, is not fixed by the code: the    *)
(* handlers that loop over such a collection take the order as an input.   *)
(***************************************************************************)
EXTENDS Integers, Sequences, FiniteSets, TLC

\* ------------------------------------------------------------------ bounds
MaxGroups == 3
MaxLifts == 2
MaxConflicts == 1
MaxWorkouts == 1
MaxWorkoutLifts == 2
MaxDay == 2
CatMaxGroups == 2
CatMaxLifts == 2
CatMaxConflicts == 1
MaxNames == 2
SetsMaxWorkouts == 2
SetsMaxWorkoutLifts == 2
SetsMaxSets == 2
MaxReps == 1
MaxWeight == 2
HistMaxGroups == 3
HistMaxLifts == 2
HistMaxLinks == 2
HistMaxConflicts == 1
HistMaxWorkouts == 2
HistMaxWorkoutLifts == 2
IdxMaxLifts == 2
IdxMaxWorkouts == 2
IdxMaxWorkoutLifts == 2
IdxMaxSets == 2
IdxMaxDay == 2
IdxMaxReps == 2
IdxMaxWeight == 2
LogMaxSets == 3
LogMaxReps == 2
LogMaxWeight == 2
ConfMaxGroups == 3
ConfMaxConflicts == 3
ConcMaxRequests == 2
ConcMaxSets == 3
ConcMaxReps == 2

Names == 1..MaxNames

VARIABLES
    mg,        \* MuscleGroup rows        [id, name]
    lift,      \* Lift rows               [id, name]
    lmg,       \* LiftMuscleGroup rows    [lift_id, muscle_group_id]
    conflict,  \* MuscleGroupConflict rows [id, muscle_group_a_id, muscle_group_b_id]
    workout,   \* Workout rows            [id, date]
    wl,        \* WorkoutLift rows        [id, workout_id, lift_id]
    ws,        \* WorkoutSet rows         [id, workout_lift_id, set_number, reps, weight]
    today,     \* the value date.today() returns
    inflight,  \* add_set requests that have read the sets and not yet committed
    resp       \* the response to the last request

store == <<mg, lift, lmg, conflict, workout, wl, ws>>
vars == <<mg, lift, lmg, conflict, workout, wl, ws, today, inflight, resp>>

\* ----------------------------------------------------------------- helpers
None == <<>>
Some(x) == <<x>>

Ids(table) == {r.id : r \in table}

Max(S) == CHOOSE x \in S : \A y \in S : y <= x

\* The rowid SQLite gives a row inserted with id = NULL.
NextId(table) == IF table = {} THEN 1 ELSE Max(Ids(table)) + 1

\* session.get(Model, id): the set holding the row, or the empty set for None.
Get(table, id) == {r \in table : r.id = id}

RECURSIVE Perms(_)
\* Every order in which the members of S can be enumerated.
Perms(S) ==
    IF S = {} THEN {<<>>}
    ELSE UNION {{<<x>> \o p : p \in Perms(S \ {x})} : x \in S}

Range(s) == {s[i] : i \in 1..Len(s)}

Reply(op, status) == [op |-> op, status |-> status]

\* The columns of a WorkoutSet a response carries (SetData, SetRead).
SetData(s) == [id |-> s.id, set_number |-> s.set_number, reps |-> s.reps,
               weight |-> s.weight]

\* --------------------------------------------------- routers/muscle_groups.py
create_muscle_group(name) ==
    /\ IF \E g \in mg : g.name = name
       THEN /\ mg' = mg
            /\ resp' = Reply("create_muscle_group", 400)
       ELSE /\ mg' = mg \cup {[id |-> NextId(mg), name |-> name]}
            /\ resp' = Reply("create_muscle_group", 201)
    /\ UNCHANGED <<lift, lmg, conflict, workout, wl, ws, today, inflight>>

rename_muscle_group(id, name) ==
    /\ IF Get(mg, id) = {}
       THEN /\ mg' = mg
            /\ resp' = Reply("rename_muscle_group", 404)
       ELSE IF \E g \in mg : g.id # id /\ g.name = name
       THEN /\ mg' = mg
            /\ resp' = Reply("rename_muscle_group", 400)
       ELSE /\ mg' = (mg \ Get(mg, id)) \cup {[id |-> id, name |-> name]}
            /\ resp' = Reply("rename_muscle_group", 200)
    /\ UNCHANGED <<lift, lmg, conflict, workout, wl, ws, today, inflight>>

delete_muscle_group(id) ==
    /\ IF Get(mg, id) = {}
       THEN /\ mg' = mg
            /\ resp' = Reply("delete_muscle_group", 404)
       ELSE /\ mg' = mg \ Get(mg, id)
            /\ resp' = Reply("delete_muscle_group", 204)
    /\ UNCHANGED <<lift, lmg, conflict, workout, wl, ws, today, inflight>>

\* ------------------------------------------------------------ routers/lifts.py
\* True when some requested id names no muscle group (the handler answers 400).
\* muscle_group_ids ranges over lists without repetition, given as sets: a
\* repeated id only makes the link insert fail as a whole.
_verify_muscle_groups_exist(muscle_group_ids) ==
    \E m \in muscle_group_ids : Get(mg, m) = {}

Links(lift_id, muscle_group_ids) ==
    {[lift_id |-> lift_id, muscle_group_id |-> m] : m \in muscle_group_ids}

create_lift(name, muscle_group_ids) ==
    /\ IF _verify_muscle_groups_exist(muscle_group_ids) \/ (\E l \in lift : l.name = name)
       THEN /\ UNCHANGED <<lift, lmg>>
            /\ resp' = Reply("create_lift", 400)
       ELSE /\ lift' = lift \cup {[id |-> NextId(lift), name |-> name]}
            /\ lmg' = lmg \cup Links(NextId(lift), muscle_group_ids)
            /\ resp' = Reply("create_lift", 201)
    /\ UNCHANGED <<mg, conflict, workout, wl, ws, today, inflight>>

\* name and muscle_group_ids are optional: None, or Some(value).
update_lift(id, name, muscle_group_ids) ==
    /\ IF Get(lift, id) = {}
       THEN /\ UNCHANGED <<lift, lmg>>
            /\ resp' = Reply("update_lift", 404)
       ELSE IF name # None /\ (\E l \in lift : l.id # id /\ l.name = name[1])
       THEN /\ UNCHANGED <<lift, lmg>>
            /\ resp' = Reply("update_lift", 400)
       ELSE /\ lift' = IF name # None
                       THEN (lift \ Get(lift, id)) \cup {[id |-> id, name |-> name[1]]}
                       ELSE lift
            /\ IF muscle_group_ids = None
               THEN /\ lmg' = lmg
                    /\ resp' = Reply("update_lift", 200)
               ELSE IF _verify_muscle_groups_exist(muscle_group_ids[1])
               THEN /\ lmg' = lmg
                    /\ resp' = Reply("update_lift", 400)
               ELSE /\ lmg' = {r \in lmg : r.lift_id # id}
                                  \cup Links(id, muscle_group_ids[1])
                    /\ resp' = Reply("update_lift", 200)
    /\ UNCHANGED <<mg, conflict, workout, wl, ws, today, inflight>>

delete_lift(id) ==
    /\ IF Get(lift, id) = {}
       THEN /\ UNCHANGED <<lift, lmg>>
            /\ resp' = Reply("delete_lift", 404)
       ELSE /\ lmg' = {r \in lmg : r.lift_id # id}
            /\ lift' = lift \ Get(lift, id)
            /\ resp' = Reply("delete_lift", 204)
    /\ UNCHANGED <<mg, conflict, workout, wl, ws, today, inflight>>

\* --------------------------------------------------------- routers/settings.py
\* Mutant: only a row stored in the requested direction counts as existing.
CreateConflictOneWay(a_id, b_id) ==
    /\ IF a_id = b_id
       THEN /\ conflict' = conflict
            /\ resp' = Reply("create_conflict", 400)
       ELSE IF Get(mg, a_id) = {} \/ Get(mg, b_id) = {}
       THEN /\ conflict' = conflict
            /\ resp' = Reply("create_conflict", 404)
       ELSE IF \E c \in conflict :
                   c.muscle_group_a_id = a_id /\ c.muscle_group_b_id = b_id
       THEN /\ conflict' = conflict
            /\ resp' = Reply("create_conflict", 400)
       ELSE /\ conflict' = conflict \cup
                   {[id |-> NextId(conflict), muscle_group_a_id |-> a_id,
                     muscle_group_b_id |-> b_id]}
            /\ resp' = Reply("create_conflict", 201)
    /\ UNCHANGED <<mg, lift, lmg, workout, wl, ws, today, inflight>>

create_conflict(a_id, b_id) ==
    /\ IF a_id = b_id
       THEN /\ conflict' = conflict
            /\ resp' = Reply("create_conflict", 400)
       ELSE IF Get(mg, a_id) = {} \/ Get(mg, b_id) = {}
       THEN /\ conflict' = conflict
            /\ resp' = Reply("create_conflict", 404)
       ELSE IF \E c \in conflict :
                   \/ c.muscle_group_a_id = a_id /\ c.muscle_group_b_id = b_id
                   \/ c.muscle_group_a_id = b_id /\ c.muscle_group_b_id = a_id
       THEN /\ conflict' = conflict
            /\ resp' = Reply("create_conflict", 400)
       ELSE /\ conflict' = conflict \cup
                   {[id |-> NextId(conflict), muscle_group_a_id |-> a_id,
                     muscle_group_b_id |-> b_id]}
            /\ resp' = Reply("create_conflict", 201)
    /\ UNCHANGED <<mg, lift, lmg, workout, wl, ws, today, inflight>>

delete_conflict(conflict_id) ==
    /\ IF Get(conflict, conflict_id) = {}
       THEN /\ conflict' = conflict
            /\ resp' = Reply("delete_conflict", 404)
       ELSE /\ conflict' = conflict \ Get(conflict, conflict_id)
            /\ resp' = Reply("delete_conflict", 204)
    /\ UNCHANGED <<mg, lift, lmg, workout, wl, ws, today, inflight>>

\* --------------------------------------------------------- routers/workouts.py
create_workout ==
    /\ workout' = workout \cup {[id |-> NextId(workout), date |-> today]}
    /\ resp' = Reply("create_workout", 201)
    /\ UNCHANGED <<mg, lift, lmg, conflict, wl, ws, today, inflight>>

\* Mutant: the WorkoutLifts go with the workout, their sets stay.
DeleteWorkoutKeepSets(id) ==
    /\ IF Get(workout, id) = {}
       THEN /\ UNCHANGED <<workout, wl, ws>>
            /\ resp' = Reply("delete_workout", 404)
       ELSE /\ ws' = ws
            /\ wl' = {r \in wl : r.workout_id # id}
            /\ workout' = workout \ Get(workout, id)
            /\ resp' = Reply("delete_workout", 204)
    /\ UNCHANGED <<mg, lift, lmg, conflict, today, inflight>>

delete_workout(id) ==
    /\ IF Get(workout, id) = {}
       THEN /\ UNCHANGED <<workout, wl, ws>>
            /\ resp' = Reply("delete_workout", 404)
       ELSE LET wl_ids == {r.id : r \in {x \in wl : x.workout_id = id}} IN
            /\ ws' = {s \in ws : s.workout_lift_id \notin wl_ids}
            /\ wl' = {r \in wl : r.workout_id # id}
            /\ workout' = workout \ Get(workout, id)
            /\ resp' = Reply("delete_workout", 204)
    /\ UNCHANGED <<mg, lift, lmg, conflict, today, inflight>>

add_lift_to_workout(id, lift_id) ==
    /\ IF Get(workout, id) = {} \/ Get(lift, lift_id) = {}
       THEN /\ wl' = wl
            /\ resp' = Reply("add_lift_to_workout", 404)
       ELSE /\ wl' = wl \cup {[id |-> NextId(wl), workout_id |-> id, lift_id |-> lift_id]}
            /\ resp' = Reply("add_lift_to_workout", 201)
    /\ UNCHANGED <<mg, lift, lmg, conflict, workout, ws, today, inflight>>

remove_lift_from_workout(id, wl_id) ==
    /\ IF \A r \in Get(wl, wl_id) : r.workout_id # id
       THEN /\ UNCHANGED <<wl, ws>>
            /\ resp' = Reply("remove_lift_from_workout", 404)
       ELSE /\ ws' = {s \in ws : s.workout_lift_id # wl_id}
            /\ wl' = wl \ Get(wl, wl_id)
            /\ resp' = Reply("remove_lift_from_workout", 204)
    /\ UNCHANGED <<mg, lift, lmg, conflict, workout, today, inflight>>

\* The WorkoutRead of a workout: its WorkoutLifts, each with the name of its
\* lift ("" when the lift is gone) and its sets, which no ORDER BY arranges.
_build_workout_read(w) ==
    [id |-> w.id, date |-> <<"day", w.date>>,
     workout_lifts |->
        {[id |-> r.id, lift_id |-> r.lift_id,
          lift_name |-> IF Get(lift, r.lift_id) = {} THEN ""
                        ELSE (CHOOSE l \in lift : l.id = r.lift_id).name,
          sets |-> {[id |-> x.id, set_number |-> x.set_number, reps |-> x.reps,
                     weight |-> x.weight] : x \in {y \in ws : y.workout_lift_id = r.id}}]
         : r \in {q \in wl : q.workout_id = w.id}}]

\* date.today() moves on between requests.
next_day ==
    /\ today' = today + 1
    /\ resp' = Reply("none", 0)
    /\ UNCHANGED <<store, inflight>>

\* -------------------------------------------------------- tests/test_indexes.py
\* A Workout row written with a date of the caller's choice, as the tests of the
\* indexes and seed.py write it.
make_workout(d) ==
    /\ workout' = workout \cup {[id |-> NextId(workout), date |-> d]}
    /\ resp' = Reply("make_workout", 201)
    /\ UNCHANGED <<mg, lift, lmg, conflict, wl, ws, today, inflight>>

\* ------------------------------------------------------------ routers/sets.py
\* Mutant: a set sent without weight is stored with weight 0.
AddSetZeroForNull(wl_id, reps, weight) ==
    /\ IF Get(wl, wl_id) = {}
       THEN /\ ws' = ws
            /\ resp' = Reply("add_set", 404)
       ELSE LET existing == {s \in ws : s.workout_lift_id = wl_id}
                workout_set == [id |-> NextId(ws), workout_lift_id |-> wl_id,
                                set_number |-> Cardinality(existing) + 1,
                                reps |-> reps,
                                weight |-> IF weight = None THEN Some(0) ELSE weight]
            IN  /\ ws' = ws \cup {workout_set}
                /\ resp' = [op |-> "add_set", status |-> 201, wl_id |-> wl_id,
                            request |-> [reps |-> reps, weight |-> weight],
                            body |-> SetData(workout_set)]
    /\ UNCHANGED <<mg, lift, lmg, conflict, workout, wl, today, inflight>>

add_set(wl_id, reps, weight) ==
    /\ IF Get(wl, wl_id) = {}
       THEN /\ ws' = ws
            /\ resp' = Reply("add_set", 404)
       ELSE LET existing == {s \in ws : s.workout_lift_id = wl_id}
                workout_set == [id |-> NextId(ws), workout_lift_id |-> wl_id,
                                set_number |-> Cardinality(existing) + 1,
                                reps |-> reps, weight |-> weight]
            IN  /\ ws' = ws \cup {workout_set}
                /\ resp' = [op |-> "add_set", status |-> 201, wl_id |-> wl_id,
                            request |-> [reps |-> reps, weight |-> weight],
                            body |-> SetData(workout_set)]
    /\ UNCHANGED <<mg, lift, lmg, conflict, workout, wl, today, inflight>>

\* add_set as two steps of one request, for requests served side by side.
\* First the WorkoutLift is looked up and the existing sets are counted.
add_set_read(request_id, wl_id, reps, weight) ==
    /\ \A p \in inflight : p.request_id # request_id
    /\ IF Get(wl, wl_id) = {}
       THEN /\ inflight' = inflight
            /\ resp' = Reply("add_set", 404)
       ELSE LET existing == {s \in ws : s.workout_lift_id = wl_id}
            IN  /\ inflight' = inflight \cup
                       {[request_id |-> request_id, wl_id |-> wl_id,
                         set_number |-> Cardinality(existing) + 1,
                         reps |-> reps, weight |-> weight]}
                /\ resp' = resp
    /\ UNCHANGED <<store, today>>

\* Then the row is inserted under the number computed from that count.
add_set_commit(p) ==
    /\ p \in inflight
    /\ LET workout_set == [id |-> NextId(ws), workout_lift_id |-> p.wl_id,
                           set_number |-> p.set_number,
                           reps |-> p.reps, weight |-> p.weight]
       IN  /\ ws' = ws \cup {workout_set}
           /\ resp' = [op |-> "add_set", status |-> 201, wl_id |-> p.wl_id,
                       request |-> [reps |-> p.reps, weight |-> p.weight],
                       body |-> SetData(workout_set)]
    /\ inflight' = inflight \ {p}
    /\ UNCHANGED <<mg, lift, lmg, conflict, workout, wl, today>>

\* reps and weight are optional, and None leaves the column as it is.
update_set(set_id, reps, weight) ==
    /\ IF Get(ws, set_id) = {}
       THEN /\ ws' = ws
            /\ resp' = Reply("update_set", 404)
       ELSE /\ ws' = {IF s.id # set_id THEN s
                      ELSE [s EXCEPT !.reps = IF reps # None THEN reps ELSE @,
                                     !.weight = IF weight # None THEN weight ELSE @]
                      : s \in ws}
            /\ resp' = Reply("update_set", 200)
    /\ UNCHANGED <<mg, lift, lmg, conflict, workout, wl, today, inflight>>

delete_set(set_id) ==
    /\ IF Get(ws, set_id) = {}
       THEN /\ ws' = ws
            /\ resp' = Reply("delete_set", 404)
       ELSE /\ ws' = ws \ Get(ws, set_id)
            /\ resp' = Reply("delete_set", 204)
    /\ UNCHANGED <<mg, lift, lmg, conflict, workout, wl, today, inflight>>

\* ------------------------------------------------------ services/algorithm.py
\* Mutant: no group counts as used.
UsedGroupIdsNone(workout_id) == {}

\* The muscle_group_ids already represented in this workout.
_get_used_group_ids(workout_id) ==
    LET lift_ids == {r.lift_id : r \in {x \in wl : x.workout_id = workout_id}}
    IN  {r.muscle_group_id : r \in {x \in lmg : x.lift_id \in lift_ids}}

\* Mutant: only conflicts whose column a holds the used group are considered.
ConflictGroupIdsOneWay(used_group_ids) ==
    {c.muscle_group_b_id : c \in {x \in conflict :
        /\ x.muscle_group_a_id \in used_group_ids
        /\ x.muscle_group_b_id \notin used_group_ids}}

\* The muscle_group_ids that conflict with a used group, the used ones excluded.
_get_conflict_group_ids(used_group_ids) ==
    LET conflicts == {c \in conflict : \/ c.muscle_group_a_id \in used_group_ids
                                       \/ c.muscle_group_b_id \in used_group_ids}
    IN  {c.muscle_group_a_id : c \in {x \in conflicts :
                                        x.muscle_group_a_id \notin used_group_ids}}
        \cup
        {c.muscle_group_b_id : c \in {x \in conflicts :
                                        x.muscle_group_b_id \notin used_group_ids}}

\* max(w.date for w in workouts), or None: the three early returns of the code
\* are the three ways the last set can be empty.
LastDate(workout_lifts) ==
    LET workouts == {w \in workout : w.id \in {r.workout_id : r \in workout_lifts}}
    IN  IF workouts = {} THEN None ELSE Some(Max({w.date : w \in workouts}))

\* The most recent workout date of the muscle group, or None.
_last_trained_date(group_id) ==
    LET lift_ids == {r.lift_id : r \in {x \in lmg : x.muscle_group_id = group_id}}
    IN  LastDate({r \in wl : r.lift_id \in lift_ids})

\* The most recent workout date of the lift, or None.
_last_done_date_for_lift(lift_id) ==
    LastDate({r \in wl : r.lift_id = lift_id})

\* Mutant: a dated item replaces a never-trained best (found_none is ignored).
PickStepNoFlag(best, item, last) ==
    IF last = None
    THEN IF ~best.found_none
         THEN [id |-> Some(item), date |-> None, found_none |-> TRUE]
         ELSE best
    ELSE IF best.id = None \/ best.date = None \/ last[1] < best.date[1]
         THEN [id |-> Some(item), date |-> last, found_none |-> FALSE]
         ELSE best

\* One pass of the selection loop shared by _select_candidate_group and
\* _select_lift_in_group: best is [id, date, found_none], id and date optional.
PickStep(best, item, last) ==
    IF last = None
    THEN IF ~best.found_none
         THEN [id |-> Some(item), date |-> None, found_none |-> TRUE]
         ELSE best
    ELSE IF ~best.found_none /\ (best.id = None \/ last[1] < best.date[1])
         THEN [id |-> Some(item), date |-> last, found_none |-> FALSE]
         ELSE best

NoBest == [id |-> None, date |-> None, found_none |-> FALSE]

RECURSIVE GroupLoop(_, _, _)
GroupLoop(order, i, best) ==
    IF i > Len(order) THEN best
    ELSE GroupLoop(order, i + 1, PickStep(best, order[i], _last_trained_date(order[i])))

\* Mutant: the first candidate met wins, whatever its date.
SelectFirstGroup(order) == order[1]

\* candidates, in the order the set is iterated: the id of the group picked.
_select_candidate_group(order) == GroupLoop(order, 1, NoBest).id[1]

RECURSIVE LiftLoop(_, _, _)
LiftLoop(order, i, best) ==
    IF i > Len(order) THEN best
    ELSE LiftLoop(order, i + 1,
                  PickStep(best, order[i], _last_done_date_for_lift(order[i])))

\* Mutant: the first lift met wins, whatever its date.
SelectFirstLift(order) == order[1]

\* lift_ids of the group, in the order the link rows are returned: the lift picked.
_select_lift_in_group(order) == LiftLoop(order, 1, NoBest).id[1]

\* The lift ids linked to the group (lift_ids of _select_lift_in_group).
GroupLiftIds(group_id) ==
    {r.lift_id : r \in {x \in lmg : x.muscle_group_id = group_id}}

RECURSIVE PrevLoop(_, _, _)
\* best is the optional best_wl; its workout's date is best_date.
PrevLoop(order, i, best) ==
    IF i > Len(order) THEN best
    ELSE LET w == Get(workout, order[i].workout_id)
             best_date == {x.date : x \in Get(workout, best[1].workout_id)}
         IN  IF w = {} THEN PrevLoop(order, i + 1, best)
             ELSE IF best = None \/ (\E x \in w : \A d \in best_date : x.date > d)
             THEN PrevLoop(order, i + 1, Some(order[i]))
             ELSE PrevLoop(order, i + 1, best)

\* The results a SELECT ... ORDER BY set_number can return for these rows.
BySetNumber(rows) ==
    {p \in Perms(rows) :
        \A i \in 1..Len(p) - 1 : p[i].set_number <= p[i + 1].set_number}

\* The WorkoutLift whose sets are returned, for workout_lifts in the order given.
BestWorkoutLift(order) == PrevLoop(order, 1, None)

\* The possible results of _get_previous_sets: one per order of the two queries.
_get_previous_sets(lift_id) ==
    UNION {
        LET best_wl == BestWorkoutLift(order)
        IN  IF best_wl = None THEN {<<>>}
            ELSE {[i \in 1..Len(p) |-> SetData(p[i])] :
                     p \in BySetNumber({s \in ws : s.workout_lift_id = best_wl[1].id})}
        : order \in Perms({r \in wl : r.lift_id = lift_id})}

\* Mutant: when nothing is left, both constraints are dropped at once.
CandidatesOneStage(workout_id) ==
    LET used_group_ids == _get_used_group_ids(workout_id)
        excluded == used_group_ids \cup _get_conflict_group_ids(used_group_ids)
    IN  IF Ids(mg) \ excluded # {} THEN Ids(mg) \ excluded ELSE Ids(mg)

\* Mutant: the conflicting groups are not excluded.
CandidatesIgnoreConflicts(workout_id) ==
    LET used_group_ids == _get_used_group_ids(workout_id)
    IN  IF Ids(mg) \ used_group_ids # {} THEN Ids(mg) \ used_group_ids ELSE Ids(mg)

\* Steps 6 to 8 of suggest_lift: the staged relaxation of the candidate set.
Candidates(workout_id) ==
    LET used_group_ids == _get_used_group_ids(workout_id)
        conflict_group_ids == _get_conflict_group_ids(used_group_ids)
        all_group_ids == Ids(mg)
        excluded == used_group_ids \cup conflict_group_ids
    IN  IF all_group_ids \ excluded # {} THEN all_group_ids \ excluded
        ELSE IF all_group_ids \ used_group_ids # {} THEN all_group_ids \ used_group_ids
        ELSE all_group_ids

Failure(op, workout_id, status, detail) ==
    [op |-> op, workout_id |-> workout_id, status |-> status, detail |-> detail]

SuggestResult(workout_id, group, selected_lift, previous_sets) ==
    [op |-> "suggest", workout_id |-> workout_id, status |-> 200,
     muscle_group_id |-> group.id, muscle_group_name |-> group.name,
     lift_id |-> selected_lift.id, lift_name |-> selected_lift.name,
     previous_sets |-> previous_sets]

\* The responses suggest_lift can give, over the iteration orders of its loops.
suggest_lift(workout_id) ==
    LET candidates == Candidates(workout_id) IN
    IF candidates = {}
    THEN {Failure("suggest", workout_id, 404, "No muscle groups found")}
    ELSE UNION {
        LET selected_group == Get(mg, _select_candidate_group(group_order))
            lift_ids == UNION {GroupLiftIds(g.id) : g \in selected_group}
        IN  IF lift_ids = {}
            THEN {Failure("suggest", workout_id, 404, "No lifts found for muscle group")}
            ELSE UNION {
                LET selected_lift_id == _select_lift_in_group(lift_order)
                IN  IF Get(lift, selected_lift_id) = {}
                    THEN {Failure("suggest", workout_id, 500, "AttributeError")}
                    ELSE {SuggestResult(workout_id, g, l, previous_sets) :
                            g \in selected_group, l \in Get(lift, selected_lift_id),
                            previous_sets \in _get_previous_sets(selected_lift_id)}
                : lift_order \in Perms(lift_ids)}
        : group_order \in Perms(candidates)}

\* Mutant: the router does not look the workout up.
SuggestUnchecked(workout_id) ==
    /\ resp' \in suggest_lift(workout_id)
    /\ UNCHANGED <<store, today, inflight>>

\* Mutant: the suggested lift is added to the workout on the way.
SuggestAndAdd(workout_id) ==
    /\ resp' \in IF Get(workout, workout_id) = {}
                 THEN {Failure("suggest", workout_id, 404, "Workout not found")}
                 ELSE suggest_lift(workout_id)
    /\ wl' = IF resp'.status = 200
             THEN wl \cup {[id |-> NextId(wl), workout_id |-> workout_id,
                            lift_id |-> resp'.lift_id]}
             ELSE wl
    /\ UNCHANGED <<mg, lift, lmg, conflict, workout, ws, today, inflight>>

\* POST /workouts/{workout_id}/suggest
suggest_lift_for_workout(workout_id) ==
    /\ resp' \in IF Get(workout, workout_id) = {}
                 THEN {Failure("suggest", workout_id, 404, "Workout not found")}
                 ELSE suggest_lift(workout_id)
    /\ UNCHANGED <<store, today, inflight>>

\* ------------------------------------------------- routers/lifts.py (last-sets)
PreviousSetRead(s) == [set_number |-> s.set_number, reps |-> s.reps, weight |-> s.weight]

\* .first() of WorkoutLift JOIN Workout WHERE lift_id = ... ORDER BY date DESC,
\* id DESC: the row, or None.
LastWorkoutLift(lift_id) ==
    LET rows == {r \in wl : r.lift_id = lift_id /\ Get(workout, r.workout_id) # {}}
        date(r) == (CHOOSE w \in workout : w.id = r.workout_id).date
    IN  IF rows = {} THEN None
        ELSE Some(CHOOSE r \in rows :
                     \A q \in rows : \/ date(q) < date(r)
                                      \/ (date(q) = date(r) /\ q.id <= r.id))

\* The lists GET /lifts/{lift_id}/last-sets can return.
LastSets(lift_id) ==
    LET result == LastWorkoutLift(lift_id)
    IN  IF result = None THEN {<<>>}
        ELSE {[i \in 1..Len(p) |-> PreviousSetRead(p[i])] :
                 p \in BySetNumber({s \in ws : s.workout_lift_id = result[1].id})}

\* GET /lifts/{lift_id}/last-sets
get_last_sets(lift_id) ==
    /\ resp' \in {[op |-> "get_last_sets", lift_id |-> lift_id, status |-> 200,
                    body |-> b] : b \in LastSets(lift_id)}
    /\ UNCHANGED <<store, today, inflight>>

\* -------------------------------------------------------- services/indexes.py
\* A ratio of two weights or two volumes is kept as a reduced fraction <<n, d>>.
RECURSIVE GCD(_, _)
GCD(a, b) == IF b = 0 THEN a ELSE GCD(b, a % b)

Frac(n, d) == IF n = 0 THEN <<0, 1>> ELSE <<n \div GCD(n, d), d \div GCD(n, d)>>

FracAdd(x, y) == Frac(x[1] * y[2] + y[1] * x[2], x[2] * y[2])

RECURSIVE FracSum(_, _)
\* sum(ratios), for the ratios f[x] of the rows x in S.
FracSum(f, S) ==
    IF S = {} THEN <<0, 1>>
    ELSE LET x == CHOOSE y \in S : TRUE
         IN  FracAdd(f[x], FracSum(f, S \ {x}))

\* sum(ratios) / len(ratios), or None for an empty list.
Mean(f, S) ==
    IF S = {} THEN None
    ELSE LET t == FracSum(f, S) IN Some(Frac(t[1], t[2] * Cardinality(S)))

\* date.isoformat(): the text of the day, ordered as the days are.
isoformat(d) == <<"day", d>>

\* The date of the workout a WorkoutLift row joins to.
DateOf(r) == (CHOOSE w \in workout : w.id = r.workout_id).date

\* WorkoutLift JOIN Workout WHERE lift_id = ... ORDER BY date ASC, id ASC.
JoinedByDate(lift_id) ==
    LET rows == {r \in wl : r.lift_id = lift_id /\ Get(workout, r.workout_id) # {}}
    IN  CHOOSE p \in Perms(rows) :
            \A i \in 1..Len(p) - 1 :
                \/ DateOf(p[i]) < DateOf(p[i + 1])
                \/ DateOf(p[i]) = DateOf(p[i + 1]) /\ p[i].id < p[i + 1].id

\* Mutant: the baseline is the latest appearance of the lift.
BaselineLatest(lift_id) ==
    LET p == JoinedByDate(lift_id)
    IN  IF p = <<>> THEN None ELSE Some(p[Len(p)].id)

\* Mutant: ORDER BY WorkoutLift.id alone, the workout dates ignored.
BaselineLowestId(lift_id) ==
    LET rows == {r \in wl : r.lift_id = lift_id /\ Get(workout, r.workout_id) # {}}
    IN  IF rows = {} THEN None
        ELSE Some(CHOOSE i \in Ids(rows) : \A j \in Ids(rows) : i <= j)

\* The WorkoutLift.id of the very first appearance of this lift, or None.
_get_baseline_workout_lift_id(lift_id) ==
    LET p == JoinedByDate(lift_id)
    IN  IF p = <<>> THEN None ELSE Some(p[1].id)

\* Mutant: the lightest set of the WorkoutLift stands for it.
MinWeightForWorkoutLift(workout_lift_id) ==
    LET weights == {s.weight[1] : s \in {x \in ws : /\ x.workout_lift_id = workout_lift_id
                                                      /\ x.weight # None}}
    IN  IF weights = {} THEN None
        ELSE Some(CHOOSE w \in weights : \A v \in weights : w <= v)

\* The max weight across all sets of the WorkoutLift, or None.
_max_weight_for_workout_lift(workout_lift_id) ==
    LET weights == {s.weight[1] : s \in {x \in ws : /\ x.workout_lift_id = workout_lift_id
                                                      /\ x.weight # None}}
    IN  IF weights = {} THEN None ELSE Some(Max(weights))

RECURSIVE SumVolume(_)
SumVolume(sets) ==
    IF sets = {} THEN 0
    ELSE LET s == CHOOSE x \in sets : TRUE
         IN  s.reps[1] * s.weight[1] + SumVolume(sets \ {s})

RECURSIVE SumWeight(_)
SumWeight(sets) ==
    IF sets = {} THEN 0
    ELSE LET s == CHOOSE x \in sets : TRUE
         IN  s.weight[1] + SumWeight(sets \ {s})

\* Mutant: the weights are summed, the reps left out.
VolumeOfWeights(workout_lift_id) ==
    SumWeight({s \in ws : /\ s.workout_lift_id = workout_lift_id
                          /\ s.reps # None
                          /\ s.weight # None})

\* sum(reps * weight) over the sets where both are non-null.
_volume_for_workout_lift(workout_lift_id) ==
    SumVolume({s \in ws : /\ s.workout_lift_id = workout_lift_id
                          /\ s.reps # None
                          /\ s.weight # None})

WorkoutIndexes(workout_id, d, strength_index, endurance_index) ==
    [workout_id |-> workout_id, date |-> isoformat(d),
     strength_index |-> strength_index, endurance_index |-> endurance_index]

\* The strength ratio the row contributes against the baseline, or None.
StrengthRatio(baseline_wl_id, r) ==
    LET baseline_max == _max_weight_for_workout_lift(baseline_wl_id)
        current_max == _max_weight_for_workout_lift(r.id)
    IN  IF baseline_max # None /\ baseline_max[1] > 0 /\ current_max # None
        THEN Some(Frac(current_max[1], baseline_max[1]))
        ELSE None

\* The endurance ratio the row contributes against the baseline, or None.
EnduranceRatio(baseline_wl_id, r) ==
    LET baseline_volume == _volume_for_workout_lift(baseline_wl_id)
        current_volume == _volume_for_workout_lift(r.id)
    IN  IF baseline_volume > 0
        THEN Some(Frac(current_volume, baseline_volume))
        ELSE None

\* The indexes of one workout, which exists (the ValueError is in the action).
calculate_workout_indexes(workout_id) ==
    LET w == CHOOSE x \in workout : x.id = workout_id
        workout_lifts == {r \in wl : r.workout_id = workout_id}
        with_baseline == {r \in workout_lifts :
                             _get_baseline_workout_lift_id(r.lift_id) # None}
        strength == [r \in with_baseline |->
                        StrengthRatio(_get_baseline_workout_lift_id(r.lift_id)[1], r)]
        endurance == [r \in with_baseline |->
                        EnduranceRatio(_get_baseline_workout_lift_id(r.lift_id)[1], r)]
        strength_rows == {r \in with_baseline : strength[r] # None}
        endurance_rows == {r \in with_baseline : endurance[r] # None}
    IN  WorkoutIndexes(workout_id, w.date,
            Mean([r \in strength_rows |-> strength[r][1]], strength_rows),
            Mean([r \in endurance_rows |-> endurance[r][1]], endurance_rows))

\* Mutant: SELECT Workout without the ORDER BY, the rows in id order.
AllWorkoutIndexesById ==
    {[i \in 1..Len(p) |-> calculate_workout_indexes(p[i].id)] :
        p \in {q \in Perms(workout) :
                  \A i \in 1..Len(q) - 1 : q[i].id <= q[i + 1].id}}

\* The results of SELECT Workout ORDER BY date ASC, each with its indexes.
get_all_workout_indexes ==
    {[i \in 1..Len(p) |-> calculate_workout_indexes(p[i].id)] :
        p \in {q \in Perms(workout) :
                  \A i \in 1..Len(q) - 1 : q[i].date <= q[i + 1].date}}

\* Mutant: each entry is the index of the whole workout of the WorkoutLift.
LiftHistoryOfWorkouts(lift_id) ==
    LET workout_lifts == JoinedByDate(lift_id)
    IN  [i \in 1..Len(workout_lifts) |->
            calculate_workout_indexes(workout_lifts[i].workout_id)]

\* One entry per WorkoutLift of the lift, by date, against the lift's baseline.
get_lift_index_history(lift_id) ==
    LET workout_lifts == JoinedByDate(lift_id)
        baseline_wl_id == _get_baseline_workout_lift_id(lift_id)
    IN  [i \in 1..Len(workout_lifts) |->
            WorkoutIndexes(workout_lifts[i].workout_id, DateOf(workout_lifts[i]),
                StrengthRatio(baseline_wl_id[1], workout_lifts[i]),
                EnduranceRatio(baseline_wl_id[1], workout_lifts[i]))]

\* A direct call of calculate_workout_indexes, as the tests make it.
indexes_for_workout(workout_id) ==
    /\ resp' = IF Get(workout, workout_id) = {}
               THEN Failure("calculate_workout_indexes", workout_id, 500, "ValueError")
               ELSE [op |-> "calculate_workout_indexes", workout_id |-> workout_id,
                     status |-> 200, body |-> calculate_workout_indexes(workout_id)]
    /\ UNCHANGED <<store, today, inflight>>

\* ------------------------------------------------------- routers/analytics.py
\* GET /analytics/progress
get_progress ==
    /\ resp' \in {[op |-> "get_progress", status |-> 200, body |-> b] :
                     b \in get_all_workout_indexes}
    /\ UNCHANGED <<store, today, inflight>>

\* GET /analytics/lifts/{lift_id}
get_lift_history(lift_id) ==
    /\ resp' = IF get_lift_index_history(lift_id) = <<>> /\ Get(lift, lift_id) = {}
               THEN [op |-> "get_lift_history", lift_id |-> lift_id, status |-> 404]
               ELSE [op |-> "get_lift_history", lift_id |-> lift_id, status |-> 200,
                     body |-> get_lift_index_history(lift_id)]
    /\ UNCHANGED <<store, today, inflight>>

\* ------------------------------------------------------------------- claims
\* The vocabulary of the claims, stated on the rows themselves.
Suggested == resp.op = "suggest" /\ resp.status = 200

\* Group g is used in workout w: linked to the lift of some WorkoutLift of w.
UsedIn(g, w) ==
    \E r \in wl, k \in lmg :
        r.workout_id = w /\ k.lift_id = r.lift_id /\ k.muscle_group_id = g

UsedIds(w) == {k.muscle_group_id : k \in {x \in lmg : UsedIn(x.muscle_group_id, w)}}

\* A conflict row pairs g and u, in either column order.
Paired(g, u) ==
    \E c \in conflict :
        \/ c.muscle_group_a_id = g /\ c.muscle_group_b_id = u
        \/ c.muscle_group_a_id = u /\ c.muscle_group_b_id = g

ConflictsWithUsed(g, w) == \E u \in UsedIds(w) : Paired(g, u)

Unused(w) == {g \in Ids(mg) : ~UsedIn(g, w)}
Free(w) == {g \in Unused(w) : ~ConflictsWithUsed(g, w)}

\* The dates of the workouts that contain a lift tagged with group g.
TrainedDates(g) ==
    {x.date : x \in {y \in workout : \E r \in wl, k \in lmg :
        r.workout_id = y.id /\ k.lift_id = r.lift_id /\ k.muscle_group_id = g}}

\* The dates of the workouts that contain lift l.
DoneDates(l) ==
    {x.date : x \in {y \in workout : \E r \in wl :
        r.workout_id = y.id /\ r.lift_id = l}}

\* C1: when some muscle group is neither used in the workout nor in conflict
\* with a used group, every suggestion returned for the workout names a group
\* that is neither used nor conflicting.
C1_FreeGroupSuggested ==
    Suggested =>
        (Free(resp.workout_id) # {} => resp.muscle_group_id \in Free(resp.workout_id))

\* C1 witness: a suggestion for a workout with a used group, a group that
\* conflicts with it and a free group.
C1_Witness ==
    /\ Suggested
    /\ Free(resp.workout_id) # {}
    /\ \E g \in Unused(resp.workout_id) : ConflictsWithUsed(g, resp.workout_id)

\* C2: relaxation is staged: with no free group but an unused one the
\* suggestion is an unused group; a used group is suggested only when every
\* muscle group is used; "No muscle groups found" is raised only when there is
\* no muscle group.
C2_StagedRelaxation ==
    /\ Suggested =>
          /\ (Unused(resp.workout_id) # {} => resp.muscle_group_id \in Unused(resp.workout_id))
          /\ (UsedIn(resp.muscle_group_id, resp.workout_id) => Unused(resp.workout_id) = {})
    /\ (resp.op = "suggest" /\ resp.status = 404 /\ resp.detail = "No muscle groups found")
          => mg = {}

\* C2 witness: the conflict constraint alone was dropped: no group is free, and
\* an unused group that was trained in another workout is suggested.
C2_Witness ==
    /\ Suggested
    /\ Free(resp.workout_id) = {}
    /\ resp.muscle_group_id \in Unused(resp.workout_id)
    /\ TrainedDates(resp.muscle_group_id) # {}

\* C3 as claimed: a group B that conflicts with a used group A is suggested
\* only when all groups other than A conflict with A.
C3_Original ==
    Suggested =>
        \A a \in Ids(mg) :
            (UsedIn(a, resp.workout_id) /\ Paired(resp.muscle_group_id, a))
                => \A g \in Ids(mg) \ {a} : Paired(g, a)

\* C3 amended: a group B that conflicts with a used group A is suggested only
\* when every muscle group is used in the workout or conflicts with a used group.
C3_ConflictingOnlyWhenNoneFree ==
    Suggested =>
        \A a \in Ids(mg) :
            (UsedIn(a, resp.workout_id) /\ Paired(resp.muscle_group_id, a))
                => Free(resp.workout_id) = {}

\* C3 witness: the workout uses more groups than A, and B, which is unused and
\* conflicts with A, is suggested.
C3_Witness ==
    /\ Suggested
    /\ \E a \in Ids(mg) :
          /\ UsedIn(a, resp.workout_id)
          /\ Paired(resp.muscle_group_id, a)
          /\ ~UsedIn(resp.muscle_group_id, resp.workout_id)
          /\ \E g \in Ids(mg) \ {a} : UsedIn(g, resp.workout_id)

\* C4: the suggested group is a candidate whose last-trained date is minimal,
\* never trained ranking older than every date.
C4_OldestGroup ==
    Suggested =>
        LET g == resp.muscle_group_id
            C == Candidates(resp.workout_id)
        IN  /\ g \in C
            /\ TrainedDates(g) # {} =>
                  \A c \in C : /\ TrainedDates(c) # {}
                               /\ Max(TrainedDates(c)) >= Max(TrainedDates(g))

\* C4 witness: the suggested group is dated and another candidate was trained
\* strictly later.
C4_Witness ==
    /\ Suggested
    /\ TrainedDates(resp.muscle_group_id) # {}
    /\ \E c \in Candidates(resp.workout_id) :
          /\ TrainedDates(c) # {}
          /\ Max(TrainedDates(c)) > Max(TrainedDates(resp.muscle_group_id))

\* C5 as claimed: no dated group is suggested while some muscle group has
\* never appeared in a workout.
C5_Original ==
    (Suggested /\ TrainedDates(resp.muscle_group_id) # {})
        => \A g \in Ids(mg) : TrainedDates(g) # {}

\* C5 amended: a dated group is suggested while a never-trained group G exists
\* only if G conflicts with a group used in the workout and some other group
\* is neither used nor conflicting.
C5_NeverTrainedFirst ==
    (Suggested /\ TrainedDates(resp.muscle_group_id) # {})
        => \A g \in Ids(mg) :
              TrainedDates(g) = {}
                  => (ConflictsWithUsed(g, resp.workout_id) /\ Free(resp.workout_id) # {})

\* C5 witness: a never-trained group is suggested although a trained group was
\* unused in the workout too.
C5_Witness ==
    /\ Suggested
    /\ TrainedDates(resp.muscle_group_id) = {}
    /\ \E c \in Free(resp.workout_id) : TrainedDates(c) # {}

\* C6: the suggested lift is linked to the suggested group and its last-done
\* date is minimal among the lifts linked to that group, never done ranking
\* older than every date.
C6_OldestLift ==
    Suggested =>
        /\ [lift_id |-> resp.lift_id, muscle_group_id |-> resp.muscle_group_id] \in lmg
        /\ DoneDates(resp.lift_id) # {} =>
              \A k \in {x \in lmg : x.muscle_group_id = resp.muscle_group_id} :
                  /\ DoneDates(k.lift_id) # {}
                  /\ Max(DoneDates(k.lift_id)) >= Max(DoneDates(resp.lift_id))

\* C6 witness: the suggested lift is dated and another lift of the group was
\* done strictly later.
C6_Witness ==
    /\ Suggested
    /\ DoneDates(resp.lift_id) # {}
    /\ \E k \in {x \in lmg : x.muscle_group_id = resp.muscle_group_id} :
          /\ DoneDates(k.lift_id) # {}
          /\ Max(DoneDates(k.lift_id)) > Max(DoneDates(resp.lift_id))

\* C8: a suggest request for a workout id that does not exist, or on a store
\* without muscle groups, is answered 404 and carries no suggestion.
C8_NotFound ==
    (resp.op = "suggest" /\ (Get(workout, resp.workout_id) = {} \/ mg = {}))
        => resp.status = 404

\* C8 witness: a suggest request for an unknown workout id while muscle groups
\* and lifts exist.
C8_Witness ==
    /\ resp.op = "suggest"
    /\ Get(workout, resp.workout_id) = {}
    /\ lmg # {}
    /\ resp.status = 404

\* C9 as claimed: suggest never fails with "No lifts found for muscle group".
C9_NeverNoLifts ==
    ~(/\ resp.op = "suggest"
      /\ resp.status = 404
      /\ resp.detail = "No lifts found for muscle group")

\* The most recent WorkoutLift rows of lift l: greatest workout date, and the
\* highest id among those sharing it.
MostRecent(l) ==
    {r \in wl :
        /\ r.lift_id = l
        /\ \A q \in wl : q.lift_id = l =>
              \/ DateOf(q) < DateOf(r)
              \/ DateOf(q) = DateOf(r) /\ q.id <= r.id}

\* C7 as claimed: previous_sets is the sets of the selected lift's most recent
\* WorkoutLift (greatest workout date, then highest id) in ascending
\* set_number, and empty if the lift has no WorkoutLift.
C7_PreviousSets ==
    Suggested =>
        LET p == resp.previous_sets IN
        /\ \A i \in 1..Len(p) - 1 : p[i].set_number <= p[i + 1].set_number
        /\ \A i, j \in 1..Len(p) : p[i] = p[j] => i = j
        /\ Range(p) = {SetData(s) : s \in {x \in ws :
                          \E r \in MostRecent(resp.lift_id) : x.workout_lift_id = r.id}}

ReadOps == {"suggest", "calculate_workout_indexes", "get_progress", "get_lift_history"}

\* C10: suggest and the three index operations are pure reads: no table of the
\* store changes in a step that answers one of them, whether it succeeds or fails.
C10_PureReads == [][resp'.op \in ReadOps => store' = store]_vars

\* C10 witness: a suggestion was answered from a store that holds logged sets.
C10_Witness ==
    /\ Suggested
    /\ resp.previous_sets # <<>>

\* C11 as claimed: suggest is deterministic.  A suggestion leaves the store as it
\* is, so a second call for the same workout can give any response of
\* suggest_lift in this state: each is the response just given.
C11_Deterministic ==
    (resp.op = "suggest" /\ Get(workout, resp.workout_id) # {}) =>
        suggest_lift(resp.workout_id) = {resp}

\* The vocabulary of the index claims, stated on the rows themselves.
Occurrences(l) == {r \in wl : r.lift_id = l}

\* The baseline occurrence of lift l: earliest workout date, then lowest id.
Earliest(l) ==
    {r \in Occurrences(l) :
        \A q \in Occurrences(l) :
            \/ DateOf(r) < DateOf(q)
            \/ DateOf(r) = DateOf(q) /\ r.id <= q.id}

SetsOf(r) == {s \in ws : s.workout_lift_id = r.id}

\* The non-null weights of the sets of r; its max weight is defined when the
\* set is not empty, and is then TopWeight(r).
Weights(r) == {s.weight[1] : s \in {x \in SetsOf(r) : x.weight # None}}
TopWeight(r) == CHOOSE w \in Weights(r) : \A v \in Weights(r) : v <= w

RECURSIVE Total(_, _)
\* The sum of f[x] over the x in S.
Total(f, S) ==
    IF S = {} THEN 0
    ELSE LET x == CHOOSE y \in S : TRUE IN f[x] + Total(f, S \ {x})

RECURSIVE Product(_, _)
\* The product of f[x] over the x in S.
Product(f, S) ==
    IF S = {} THEN 1
    ELSE LET x == CHOOSE y \in S : TRUE IN f[x] * Product(f, S \ {x})

\* The volume of r: reps x weight summed over the sets that have both.
Volume(r) ==
    LET both == {s \in SetsOf(r) : s.reps # None /\ s.weight # None}
    IN  Total([s \in both |-> s.reps[1] * s.weight[1]], both)

One == Some(<<1, 1>>)

IndexesOfWorkout == resp.op = "calculate_workout_indexes" /\ resp.status = 200
HistoryOfLift == resp.op = "get_lift_history" /\ resp.status = 200

\* C12: a baseline occurrence has strength ratio 1 when its max weight is
\* defined and positive, and endurance ratio 1 when its volume is positive: the
\* first entry of the lift's history shows it, and a workout made of such
\* baseline occurrences only has strength index 1, respectively endurance index 1.
C12_BaselineIsOne ==
    /\ (HistoryOfLift /\ resp.body # <<>>) =>
           \A b \in Earliest(resp.lift_id) :
               /\ (Weights(b) # {} /\ TopWeight(b) > 0) => resp.body[1].strength_index = One
               /\ Volume(b) > 0 => resp.body[1].endurance_index = One
    /\ IndexesOfWorkout =>
           LET rows == {r \in wl : r.workout_id = resp.workout_id} IN
           /\ (/\ rows # {}
               /\ \A r \in rows : /\ r \in Earliest(r.lift_id)
                                   /\ Weights(r) # {}
                                   /\ TopWeight(r) > 0)
                 => resp.body.strength_index = One
           /\ (/\ rows # {}
               /\ \A r \in rows : r \in Earliest(r.lift_id) /\ Volume(r) > 0)
                 => resp.body.endurance_index = One

\* C12 witness: the indexes of a workout of baseline occurrences with volume
\* were read, while one of the lifts has another occurrence of another volume in
\* another workout.
C12_Witness ==
    /\ IndexesOfWorkout
    /\ LET rows == {r \in wl : r.workout_id = resp.workout_id} IN
       /\ Cardinality(rows) >= 1
       /\ \A r \in rows : r \in Earliest(r.lift_id) /\ Volume(r) > 0
       /\ \E r \in rows : \E q \in Occurrences(r.lift_id) :
              q.workout_id # r.workout_id /\ Volume(q) > 0 /\ Volume(q) # Volume(r)
    /\ resp.body.strength_index = One
    /\ resp.body.endurance_index = One

\* C13: the baseline of a lift is its WorkoutLift of the earliest workout date,
\* the one of lowest id among those of that date, and there is none exactly when
\* the lift has no WorkoutLift.
C13_Baseline ==
    \A l \in Ids(lift) :
        /\ _get_baseline_workout_lift_id(l) = None <=> Occurrences(l) = {}
        /\ \A b \in Earliest(l) : _get_baseline_workout_lift_id(l) = Some(b.id)
        /\ Occurrences(l) # {} => Cardinality(Earliest(l)) = 1

\* C13 witness: a history was read for a lift whose baseline is not its row of
\* lowest id: a row of lower id belongs to a workout of a later date.
C13_Witness ==
    /\ HistoryOfLift
    /\ \E b \in Earliest(resp.lift_id) :
           \E q \in Occurrences(resp.lift_id) : q.id < b.id /\ DateOf(b) < DateOf(q)
    /\ _get_baseline_workout_lift_id(resp.lift_id) # None

\* index is the arithmetic mean of num[r] / den[r] over the rows r of Q, and
\* null when Q is empty.  With D the product of the denominators, the sum of
\* the ratios is N / D for N the sum of num[r] * (D / den[r]).
IsMean(index, num, den, Q) ==
    IF Q = {} THEN index = None
    ELSE /\ index # None
         /\ LET D == Product(den, Q)
                N == Total([r \in Q |-> num[r] * (D \div den[r])], Q)
            IN  /\ index[1][2] > 0
                /\ index[1][1] * D * Cardinality(Q) = index[1][2] * N

\* The baseline occurrence of the lift of row r.
BaselineOf(r) == CHOOSE b \in Earliest(r.lift_id) : TRUE

\* C14: the strength index of a workout is the mean of max_weight(wl) /
\* max_weight(baseline(wl)) over exactly its WorkoutLifts whose baseline has a
\* max weight that is defined and positive and whose own max weight is defined,
\* and null when it has no such WorkoutLift.
C14_StrengthIndex ==
    IndexesOfWorkout =>
        LET rows == {r \in wl : r.workout_id = resp.workout_id}
            Q == {r \in rows : /\ Weights(BaselineOf(r)) # {}
                               /\ TopWeight(BaselineOf(r)) > 0
                               /\ Weights(r) # {}}
        IN  IsMean(resp.body.strength_index,
                   [r \in Q |-> TopWeight(r)],
                   [r \in Q |-> TopWeight(BaselineOf(r))], Q)

\* C14 witness: the strength index read is the mean of two different ratios,
\* one of them of a WorkoutLift heavier than its baseline in an earlier workout.
C14_Witness ==
    /\ IndexesOfWorkout
    /\ LET rows == {r \in wl : r.workout_id = resp.workout_id} IN
       \E r, q \in rows :
           /\ r # q
           /\ BaselineOf(r) # r
           /\ Weights(BaselineOf(r)) # {}
           /\ Weights(r) # {}
           /\ 0 < TopWeight(BaselineOf(r))
           /\ TopWeight(BaselineOf(r)) < TopWeight(r)
           /\ Weights(q) # {}
           /\ TopWeight(q) > 0
    /\ resp.body.strength_index \notin {None, One}

C16_NoSetsNoRatio ==
    IndexesOfWorkout =>
        LET rows == {r \in wl : r.workout_id = resp.workout_id /\ SetsOf(r) # {}}
            S == {r \in rows : /\ Weights(BaselineOf(r)) # {}
                               /\ TopWeight(BaselineOf(r)) > 0
                               /\ Weights(r) # {}}
            E == {r \in rows : Volume(BaselineOf(r)) > 0}
        IN  /\ IsMean(resp.body.strength_index,
                      [r \in S |-> TopWeight(r)],
                      [r \in S |-> TopWeight(BaselineOf(r))], S)
            /\ IsMean(resp.body.endurance_index,
                      [r \in E |-> Volume(r)],
                      [r \in E |-> Volume(BaselineOf(r))], E)
            /\ rows = {} => /\ resp.body.strength_index = None
                            /\ resp.body.endurance_index = None

WorkoutDate(id) == (CHOOSE w \in workout : w.id = id).date

\* The entries of body are in non-decreasing order of their workouts' dates.
ByWorkoutDate(body) ==
    \A i \in 1..Len(body) - 1 :
        WorkoutDate(body[i].workout_id) <= WorkoutDate(body[i + 1].workout_id)

\* C17: the progress has exactly one entry per existing workout, in
\* non-decreasing order of workout date, whatever the order of creation.
C17_AllByDate ==
    (resp.op = "get_progress" /\ resp.status = 200) =>
        /\ {resp.body[i].workout_id : i \in 1..Len(resp.body)} = Ids(workout)
        /\ Len(resp.body) = Cardinality(workout)
        /\ ByWorkoutDate(resp.body)
        /\ \A i \in 1..Len(resp.body) :
               resp.body[i].date = isoformat(WorkoutDate(resp.body[i].workout_id))

\* C17 witness: the progress of two workouts was read, the one created later
\* being of the earlier date and coming first.
C17_Witness ==
    /\ resp.op = "get_progress"
    /\ Len(resp.body) = 2
    /\ resp.body[1].workout_id > resp.body[2].workout_id
    /\ WorkoutDate(resp.body[1].workout_id) < WorkoutDate(resp.body[2].workout_id)

\* The entry e gives the ratios of occurrence r against the baseline b.
RatiosOf(e, r, b) ==
    /\ IF Weights(b) # {} /\ TopWeight(b) > 0 /\ Weights(r) # {}
       THEN /\ e.strength_index # None
            /\ e.strength_index[1][2] > 0
            /\ e.strength_index[1][1] * TopWeight(b) = e.strength_index[1][2] * TopWeight(r)
       ELSE e.strength_index = None
    /\ IF Volume(b) > 0
       THEN /\ e.endurance_index # None
            /\ e.endurance_index[1][2] > 0
            /\ e.endurance_index[1][1] * Volume(b) = e.endurance_index[1][2] * Volume(r)
       ELSE e.endurance_index = None

\* C18: the history of lift L has an entry for workout W exactly when W has a
\* WorkoutLift of L, in non-decreasing order of workout date, and each entry
\* gives the ratios of an occurrence of L in its workout against L's baseline.
C18_LiftHistory ==
    HistoryOfLift =>
        /\ {resp.body[i].workout_id : i \in 1..Len(resp.body)}
              = {r.workout_id : r \in Occurrences(resp.lift_id)}
        /\ ByWorkoutDate(resp.body)
        /\ \A i \in 1..Len(resp.body) :
               \E r \in Occurrences(resp.lift_id), b \in Earliest(resp.lift_id) :
                   /\ r.workout_id = resp.body[i].workout_id
                   /\ RatiosOf(resp.body[i], r, b)

\* C18 witness: a history of two workouts was read, the workout created later
\* being of the earlier date and coming first, and the second entry is a ratio
\* other than 1 against the baseline in the first.
C18_Witness ==
    /\ HistoryOfLift
    /\ Len(resp.body) = 2
    /\ resp.body[1].workout_id > resp.body[2].workout_id
    /\ WorkoutDate(resp.body[1].workout_id) < WorkoutDate(resp.body[2].workout_id)
    /\ resp.body[1].strength_index = One
    /\ resp.body[2].strength_index \notin {None, One}

\* C19 as claimed: no workout id appears in two entries of a lift's history,
\* which has one entry per workout containing the lift.
C19_OneEntryPerWorkout ==
    HistoryOfLift =>
        /\ \A i, j \in 1..Len(resp.body) :
               resp.body[i].workout_id = resp.body[j].workout_id => i = j
        /\ Len(resp.body) = Cardinality({r.workout_id : r \in Occurrences(resp.lift_id)})

\* C20 as claimed: the set_numbers of the n sets of a WorkoutLift are distinct
\* and form 1..n, and the set_number an add_set returns is held by no other set
\* of the WorkoutLift.
C20_SetNumbers ==
    /\ \A r \in wl :
           /\ {s.set_number : s \in SetsOf(r)} = 1..Cardinality(SetsOf(r))
           /\ \A s, t \in SetsOf(r) : s.set_number = t.set_number => s = t
    /\ (resp.op = "add_set" /\ resp.status = 201) =>
           \A s \in ws : (s.workout_lift_id = resp.wl_id /\ s.id # resp.body.id)
                             => s.set_number # resp.body.set_number

\* C21: the cascades leave no orphan: every WorkoutSet references an existing
\* WorkoutLift and every WorkoutLift an existing Workout, so nothing of a
\* deleted workout or of a removed WorkoutLift remains.
C21_NoOrphans ==
    /\ \A s \in ws : Get(wl, s.workout_lift_id) # {}
    /\ \A r \in wl : Get(workout, r.workout_id) # {}

\* C21 witness: a workout was deleted, the first WorkoutLift and the first set
\* are gone with it, and the rows of another workout are still there.
C21_Witness ==
    /\ resp = Reply("delete_workout", 204)
    /\ Get(workout, 1) = {}
    /\ Get(wl, 1) = {} /\ wl # {}
    /\ Get(ws, 1) = {} /\ ws # {}

\* C22 as claimed: every LiftMuscleGroup row references a lift that exists and
\* a muscle group that exists.
C22_LinksReferToRows ==
    \A k \in lmg : Get(lift, k.lift_id) # {} /\ Get(mg, k.muscle_group_id) # {}

\* C23 as claimed: the lift_id of every WorkoutLift references a lift that
\* exists.
C23_WorkoutLiftHasLift ==
    \A r \in wl : Get(lift, r.lift_id) # {}

\* No conflict row pairs a group with itself, and no two rows hold the same
\* unordered pair.
ConflictRowsDistinct ==
    /\ \A c \in conflict : c.muscle_group_a_id # c.muscle_group_b_id
    /\ \A c, d \in conflict :
           {c.muscle_group_a_id, c.muscle_group_b_id}
               = {d.muscle_group_a_id, d.muscle_group_b_id} => c = d

\* C24: after any create_conflict and delete_conflict requests no row is a
\* self-conflict and no unordered pair is stored twice, and a create_conflict
\* answered 400 adds no row.
C24_ConflictPairs ==
    /\ []ConflictRowsDistinct
    /\ [][(resp'.op = "create_conflict" /\ resp'.status = 400) => conflict' = conflict]_vars

\* C24 witness: a create_conflict was answered 400 while two pairs are stored,
\* one of them with the higher group id in column a.
C24_Witness ==
    /\ resp = Reply("create_conflict", 400)
    /\ Cardinality(conflict) = 2
    /\ \E c \in conflict : c.muscle_group_a_id > c.muscle_group_b_id

\* The sets read back for WorkoutLift wl_id, through the WorkoutRead of its
\* workout.
SetsReadBack(wl_id) ==
    UNION {e.sets : e \in {x \in UNION {_build_workout_read(w).workout_lifts : w \in workout} :
                              x.id = wl_id}}

\* C25: after a successful add_set the sets read back for the WorkoutLift hold
\* one new set with the set_number the response reported and the reps and
\* weight of the request, null included, and the sets read before as they were.
C25_RoundTrip ==
    [][(resp'.op = "add_set" /\ resp'.status = 201) =>
          \E j \in Ids(wl) :
              /\ j = resp'.wl_id
              /\ \E s \in SetsReadBack(j)' :
                     /\ s.id = resp'.body.id
                     /\ s.set_number = resp'.body.set_number
                     /\ s.reps = resp'.request.reps /\ s.reps = resp'.body.reps
                     /\ s.weight = resp'.request.weight /\ s.weight = resp'.body.weight
                     /\ s \notin SetsReadBack(j)
                     /\ SetsReadBack(j)' \ {s} = SetsReadBack(j)]_vars

\* C25 witness: a set without reps and without weight was added as the second
\* set of its WorkoutLift.
C25_Witness ==
    /\ resp.op = "add_set" /\ resp.status = 201
    /\ resp.request = [reps |-> None, weight |-> None]
    /\ resp.body.set_number = 2
    /\ Cardinality(SetsReadBack(resp.wl_id)) = 2

\* C26: when some muscle group is not used by the workout, the lift suggested
\* is the lift of no WorkoutLift of the workout.
C26_NotAlreadyLogged ==
    (Suggested /\ Unused(resp.workout_id) # {}) =>
        \A r \in wl : r.workout_id = resp.workout_id => r.lift_id # resp.lift_id

\* C26 witness: a lift was suggested for a workout that holds a lift of a used
\* group trained longer ago than the group suggested.
C26_Witness ==
    /\ Suggested
    /\ Unused(resp.workout_id) # {}
    /\ \E u \in UsedIds(resp.workout_id) :
           /\ u \in Ids(mg)
           /\ TrainedDates(resp.muscle_group_id) # {}
           /\ \A d \in TrainedDates(u), e \in TrainedDates(resp.muscle_group_id) : d < e

\* C27 as claimed: when some muscle group is not used by the workout, the lift
\* suggested is linked to no muscle group used in the workout.
C27_NoUsedGroupOfLift ==
    (Suggested /\ Unused(resp.workout_id) # {}) =>
        \A k \in lmg : k.lift_id = resp.lift_id =>
            ~UsedIn(k.muscle_group_id, resp.workout_id)

\* C28 as claimed: the last sets returned for a lift are the previous_sets that
\* suggest computes for it, as (set_number, reps, weight): what the one can
\* return, the other can, and nothing else.
C28_LastSetsArePreviousSets ==
    resp.op = "get_last_sets" =>
        /\ {[i \in 1..Len(p) |-> PreviousSetRead(p[i])] :
               p \in _get_previous_sets(resp.lift_id)} = LastSets(resp.lift_id)
        /\ resp.body \in LastSets(resp.lift_id)

\* C29 as claimed: no two sets of one WorkoutLift hold the same set_number,
\* also when two add_set requests read the existing sets before either commits.
C29_DistinctSetNumbers ==
    \A s, t \in ws :
        (s.workout_lift_id = t.workout_lift_id /\ s.set_number = t.set_number) => s = t

\* C30 as claimed: an update_lift answered 400 leaves the store as it was: the
\* name of the lift and its links are those before the request.
C30_RejectedUpdateLeavesStore ==
    [][(resp'.op = "update_lift" /\ resp'.status = 400) => store' = store]_vars

\* ------------------------------------------------------------ specification
Init ==
    /\ mg = {}
    /\ lift = {}
    /\ lmg = {}
    /\ conflict = {}
    /\ workout = {}
    /\ wl = {}
    /\ ws = {}
    /\ today = 1
    /\ inflight = {}
    /\ resp = Reply("none", 0)

\* Spec: the catalogue (muscle groups, lifts, links, conflicts) under every
\* write the API offers, and one workout to ask suggestions for.  Names play no
\* part in a suggestion: each row is created under the name numbered like its id.
Next ==
    \/ NextId(mg) <= MaxGroups /\ create_muscle_group(NextId(mg))
    \/ \E i \in 1..MaxGroups : delete_muscle_group(i)
    \/ \E ms \in SUBSET (1..MaxGroups) :
           NextId(lift) <= MaxLifts /\ create_lift(NextId(lift), ms)
    \/ \E i \in 1..MaxLifts, ms \in SUBSET (1..MaxGroups) : update_lift(i, None, Some(ms))
    \/ \E i \in 1..MaxLifts : delete_lift(i)
    \/ \E a, b \in 1..MaxGroups : NextId(conflict) <= MaxConflicts /\ create_conflict(a, b)
    \/ \E i \in 1..MaxConflicts : delete_conflict(i)
    \/ NextId(workout) <= MaxWorkouts /\ create_workout
    \/ \E i \in 1..MaxWorkouts : delete_workout(i)
    \/ \E i \in 1..MaxWorkouts, l \in 1..MaxLifts :
           NextId(wl) <= MaxWorkoutLifts /\ add_lift_to_workout(i, l)
    \/ \E i \in 1..MaxWorkouts, j \in 1..MaxWorkoutLifts : remove_lift_from_workout(i, j)
    \/ \E i \in 1..MaxWorkouts + 1 : suggest_lift_for_workout(i)

\* SpecHistory: a catalogue that only grows, two workouts on different days.
NextHistory ==
    \/ NextId(mg) <= HistMaxGroups /\ create_muscle_group(NextId(mg))
    \/ \E ms \in SUBSET (1..HistMaxGroups) :
           /\ NextId(lift) <= HistMaxLifts
           /\ Cardinality(ms) <= HistMaxLinks
           /\ create_lift(NextId(lift), ms)
    \/ \E a, b \in 1..HistMaxGroups :
           NextId(conflict) <= HistMaxConflicts /\ create_conflict(a, b)
    \/ NextId(workout) <= HistMaxWorkouts /\ create_workout
    \/ \E i \in 1..HistMaxWorkouts, l \in 1..HistMaxLifts :
           NextId(wl) <= HistMaxWorkoutLifts /\ add_lift_to_workout(i, l)
    \/ today < MaxDay /\ next_day
    \/ \E i \in 1..HistMaxWorkouts : suggest_lift_for_workout(i)

\* SpecSets: one lift of one muscle group, logged in workouts with sets.
InitSets ==
    /\ mg = {[id |-> 1, name |-> 1]}
    /\ lift = {[id |-> 1, name |-> 1]}
    /\ lmg = {[lift_id |-> 1, muscle_group_id |-> 1]}
    /\ conflict = {}
    /\ workout = {}
    /\ wl = {}
    /\ ws = {}
    /\ today = 1
    /\ inflight = {}
    /\ resp = Reply("none", 0)

RepsIn == {None} \cup {Some(r) : r \in 1..MaxReps}
WeightIn == {None} \cup {Some(w) : w \in 0..MaxWeight}

NextSets ==
    \/ NextId(workout) <= SetsMaxWorkouts /\ create_workout
    \/ \E i \in 1..SetsMaxWorkouts : delete_workout(i)
    \/ \E i \in 1..SetsMaxWorkouts :
           NextId(wl) <= SetsMaxWorkoutLifts /\ add_lift_to_workout(i, 1)
    \/ \E i \in 1..SetsMaxWorkouts, j \in 1..SetsMaxWorkoutLifts :
           remove_lift_from_workout(i, j)
    \/ \E j \in 1..SetsMaxWorkoutLifts, r \in RepsIn, w \in WeightIn :
           NextId(ws) <= SetsMaxSets /\ add_set(j, r, w)
    \/ \E k \in 1..SetsMaxSets, r \in RepsIn, w \in WeightIn : update_set(k, r, w)
    \/ \E k \in 1..SetsMaxSets : delete_set(k)
    \/ today < MaxDay /\ next_day
    \/ \E i \in 1..SetsMaxWorkouts : suggest_lift_for_workout(i)
    \/ \E i \in 1..SetsMaxWorkouts : indexes_for_workout(i)
    \/ get_progress
    \/ \E l \in 1..MaxLifts : get_lift_history(l)
    \/ \E l \in 1..MaxLifts : get_last_sets(l)

\* SpecIndex: lifts logged in workouts of any date, and the indexes read back.
InitIndex ==
    /\ mg = {}
    /\ lift = {[id |-> i, name |-> i] : i \in 1..IdxMaxLifts}
    /\ lmg = {}
    /\ conflict = {}
    /\ workout = {}
    /\ wl = {}
    /\ ws = {}
    /\ today = 1
    /\ inflight = {}
    /\ resp = Reply("none", 0)

IdxRepsIn == {None} \cup {Some(r) : r \in 1..IdxMaxReps}
IdxWeightIn == {None} \cup {Some(w) : w \in 0..IdxMaxWeight}

NextIndex ==
    \/ \E d \in 1..IdxMaxDay : NextId(workout) <= IdxMaxWorkouts /\ make_workout(d)
    \/ \E i \in 1..IdxMaxWorkouts, l \in 1..IdxMaxLifts :
           NextId(wl) <= IdxMaxWorkoutLifts /\ add_lift_to_workout(i, l)
    \/ \E j \in 1..IdxMaxWorkoutLifts, r \in IdxRepsIn, w \in IdxWeightIn :
           NextId(ws) <= IdxMaxSets /\ add_set(j, r, w)
    \/ \E i \in 1..IdxMaxWorkouts : indexes_for_workout(i)
    \/ get_progress
    \/ \E l \in 1..IdxMaxLifts : get_lift_history(l)

\* SpecLog: two lifts and two workouts a day apart, the first lift in both and
\* the second in the later one, and the sets logged for them.
InitLog ==
    /\ mg = {}
    /\ lift = {[id |-> 1, name |-> 1], [id |-> 2, name |-> 2]}
    /\ lmg = {}
    /\ conflict = {}
    /\ workout = {[id |-> 1, date |-> 1], [id |-> 2, date |-> 2]}
    /\ wl = {[id |-> 1, workout_id |-> 1, lift_id |-> 1],
             [id |-> 2, workout_id |-> 2, lift_id |-> 1],
             [id |-> 3, workout_id |-> 2, lift_id |-> 2]}
    /\ ws = {}
    /\ today = 2
    /\ inflight = {}
    /\ resp = Reply("none", 0)

LogRepsIn == {None} \cup {Some(r) : r \in 1..LogMaxReps}
LogWeightIn == {None} \cup {Some(w) : w \in 0..LogMaxWeight}

NextLog ==
    \/ \E r \in wl, reps \in LogRepsIn, w \in LogWeightIn :
           NextId(ws) <= LogMaxSets /\ add_set(r.id, reps, w)
    \/ \E w \in workout : indexes_for_workout(w.id)

\* SpecConflicts: the conflicts of a fixed set of muscle groups; a request can
\* also name a group that does not exist.
InitConflicts ==
    /\ mg = {[id |-> i, name |-> i] : i \in 1..ConfMaxGroups}
    /\ lift = {}
    /\ lmg = {}
    /\ conflict = {}
    /\ workout = {}
    /\ wl = {}
    /\ ws = {}
    /\ today = 1
    /\ inflight = {}
    /\ resp = Reply("none", 0)

NextConflicts ==
    \/ \E a, b \in 1..ConfMaxGroups + 1 :
           NextId(conflict) <= ConfMaxConflicts /\ create_conflict(a, b)
    \/ \E i \in 1..ConfMaxConflicts : delete_conflict(i)

\* SpecConcurrent: add_set requests for two WorkoutLifts of one workout, served
\* side by side: a request reads, others may read or commit, then it commits.
InitConcurrent ==
    /\ mg = {}
    /\ lift = {[id |-> 1, name |-> 1]}
    /\ lmg = {}
    /\ conflict = {}
    /\ workout = {[id |-> 1, date |-> 1]}
    /\ wl = {[id |-> 1, workout_id |-> 1, lift_id |-> 1],
             [id |-> 2, workout_id |-> 1, lift_id |-> 1]}
    /\ ws = {}
    /\ today = 1
    /\ inflight = {}
    /\ resp = Reply("none", 0)

ConcRepsIn == {None} \cup {Some(r) : r \in 1..ConcMaxReps}

NextConcurrent ==
    \/ \E q \in 1..ConcMaxRequests, j \in 1..Cardinality(wl) + 1, r \in ConcRepsIn :
           /\ Cardinality(ws) + Cardinality(inflight) < ConcMaxSets
           /\ add_set_read(q, j, r, None)
    \/ \E p \in inflight : add_set_commit(p)

\* SpecCatalog: the catalogue alone, under every name a request can carry.
OptionalName == {None} \cup {Some(n) : n \in Names}
OptionalGroupIds == {None} \cup {Some(ms) : ms \in SUBSET (1..CatMaxGroups)}

NextCatalog ==
    \/ \E n \in Names : NextId(mg) <= CatMaxGroups /\ create_muscle_group(n)
    \/ \E i \in 1..CatMaxGroups, n \in Names : rename_muscle_group(i, n)
    \/ \E i \in 1..CatMaxGroups : delete_muscle_group(i)
    \/ \E n \in Names, ms \in SUBSET (1..CatMaxGroups) :
           NextId(lift) <= CatMaxLifts /\ create_lift(n, ms)
    \/ \E i \in 1..CatMaxLifts, n \in OptionalName, ms \in OptionalGroupIds :
           update_lift(i, n, ms)
    \/ \E i \in 1..CatMaxLifts : delete_lift(i)
    \/ \E a, b \in 1..CatMaxGroups :
           NextId(conflict) <= CatMaxConflicts /\ create_conflict(a, b)
    \/ \E i \in 1..CatMaxConflicts : delete_conflict(i)

Spec == Init /\ [][Next]_vars
SpecHistory == Init /\ [][NextHistory]_vars
SpecSets == InitSets /\ [][NextSets]_vars
SpecCatalog == Init /\ [][NextCatalog]_vars
SpecIndex == InitIndex /\ [][NextIndex]_vars
SpecLog == InitLog /\ [][NextLog]_vars
SpecConflicts == InitConflicts /\ [][NextConflicts]_vars
SpecConcurrent == InitConcurrent /\ [][NextConcurrent]_vars
====
